---- MODULE Spec2Model ----
(***************************************************************************)
(* TouchRelay: the WebSocket session loop (handle_socket) and the message  *)
(* handler (handle_message) of src/src/handler.rs, as a state machine.     *)
(*                                                                         *)
(* One process per connection.  A connection's incoming stream is the      *)
(* sequence sent[s]; socket.recv() consumes it item by item.  Each session *)
(* constructs its own Enigo behind Arc<Mutex<..>>; every actuator call and *)
(* every inter-click sleep is appended to trace[s].                         *)
(*                                                                         *)
(* A text payload is identified with what serde_json::from_str makes of    *)
(* it: either a parse failure ("garbage") or a JSON value.  JSON integers  *)
(* are kept as four 16-bit limbs (little endian, two's complement) so that *)
(* the 64-bit accessors and the `as i32` / `as u32` casts keep their width.*)
(***************************************************************************)
EXTENDS Integers, Sequences, FiniteSets, TLC

(***************************************************************************)
(* Bounds                                                                  *)
(***************************************************************************)
NumSessions == 2
MaxSent == 2
StreamLen == 3

Sessions == 1..NumSessions
Instances == 1..NumSessions

(***************************************************************************)
(* Program constants                                                       *)
(***************************************************************************)
InterClickDelayMs == 50
Limb == 65536
HalfLimb == 32768

(***************************************************************************)
(* JSON values (serde_json::Value)                                         *)
(***************************************************************************)
NoLimbs == <<0, 0, 0, 0>>

JStr(x) == [t |-> "str", s |-> x, n |-> NoLimbs]
JFloat == [t |-> "float", s |-> "", n |-> NoLimbs]
JNull == [t |-> "null", s |-> "", n |-> NoLimbs]
JPos(l) == [t |-> "posint", s |-> "", n |-> l]
JNeg(l) == [t |-> "negint", s |-> "", n |-> l]

\* the JSON integer literal v, for |v| < 2^31
JInt(v) ==
    IF v >= 0
    THEN JPos(<<v % Limb, v \div Limb, 0, 0>>)
    ELSE JNeg(<<v % Limb, ((v - (v % Limb)) \div Limb) % Limb, Limb - 1, Limb - 1>>)

\* the JSON integer literal q * 2^32 + r, for 0 <= q < 2^16 and 0 <= r < 2^16
JBig(q, r) == JPos(<<r, 0, q, 0>>)

Garbage == [j |-> "garbage", elems |-> << >>]
JObject == [j |-> "object", elems |-> << >>]
JScalar == [j |-> "scalar", elems |-> << >>]
JArray(es) == [j |-> "array", elems |-> es]

None == [some |-> FALSE, n |-> NoLimbs]
Some(l) == [some |-> TRUE, n |-> l]

\* Value::as_i64: a PosInt that fits i64, or a NegInt
as_i64(e) ==
    IF e.t = "negint" THEN Some(e.n)
    ELSE IF e.t = "posint" /\ e.n[4] < HalfLimb THEN Some(e.n)
    ELSE None

\* Value::as_u64: a PosInt
as_u64(e) == IF e.t = "posint" THEN Some(e.n) ELSE None

\* Value::as_str
is_str(e) == e.t = "str"

\* mutant of as_i32: the cast keeps 16 bits only (`as i16`)
as_i16(l) == IF l[1] < HalfLimb THEN l[1] ELSE l[1] - Limb

\* `x as i32` of a 64-bit integer: the low 32 bits, read as signed
as_i32(l) ==
    IF l[2] < HalfLimb THEN l[2] * Limb + l[1] ELSE (l[2] - Limb) * Limb + l[1]

\* mutant of as_u32: the conversion saturates at u32::MAX
as_u32_Saturates(l) ==
    IF l[3] > 0 \/ l[4] > 0 THEN <<Limb - 1, Limb - 1>> ELSE <<l[1], l[2]>>

\* `x as u32` of a 64-bit integer: the low 32 bits, kept as two limbs
as_u32(l) == <<l[1], l[2]>>

\* mutant of u32_gt: the comparison is off by one (c >= i)
u32_ge(c, i) == c[2] > 0 \/ c[1] >= i

\* i < c and c > 1 for a u32 c held as two limbs and a small counter i
u32_gt(c, i) == c[2] > 0 \/ c[1] > i

(***************************************************************************)
(* Commands and results of the synchronous head of handle_message          *)
(***************************************************************************)
NoCmd == [tag |-> "none", dx |-> 0, dy |-> 0, button |-> "", click_count |-> <<0, 0>>,
          str |-> "", i |-> 0]

Err(msg) == [err |-> msg, cmd |-> NoCmd]
Ok(c) == [err |-> "", cmd |-> c]

\* mutant of Button: the match falls back to the left button
ButtonDefaultsToLeft(button_type) == IF button_type = "r" THEN "Right" ELSE "Left"

Button(button_type) ==
    IF button_type = "l" THEN "Left"
    ELSE IF button_type = "r" THEN "Right"
    ELSE "unknown"

\* mutant of Key: a name the match does not list is passed on as the key
KeyPassesUnknown(key_name) == IF key_name = "Delete" THEN "Backspace" ELSE key_name

Key(key_name) ==
    IF key_name = "Escape" THEN "Escape"
    ELSE IF key_name = "PageUp" THEN "PageUp"
    ELSE IF key_name = "PageDown" THEN "PageDown"
    ELSE IF key_name = "Delete" THEN "Backspace"
    ELSE IF key_name = "Return" THEN "Return"
    ELSE "unknown"

\* mutant of parse_m: dx is looked at before the length of the array
parse_m_TypeFirst(arr) ==
    IF Len(arr) >= 2 /\ ~as_i64(arr[2]).some THEN Err("Invalid dx")
    ELSE IF Len(arr) < 3 THEN Err("Invalid mouse move message")
    ELSE IF ~as_i64(arr[3]).some THEN Err("Invalid dy")
    ELSE Ok([NoCmd EXCEPT !.tag = "m", !.dx = as_i32(as_i64(arr[2]).n),
                          !.dy = as_i32(as_i64(arr[3]).n)])

parse_m(arr) ==
    IF Len(arr) < 3 THEN Err("Invalid mouse move message")
    ELSE IF ~as_i64(arr[2]).some THEN Err("Invalid dx")
    ELSE IF ~as_i64(arr[3]).some THEN Err("Invalid dy")
    ELSE Ok([NoCmd EXCEPT !.tag = "m", !.dx = as_i32(as_i64(arr[2]).n),
                          !.dy = as_i32(as_i64(arr[3]).n)])

\* mutant of parse_b: a click count of zero is refused
parse_b_RejectsZero(arr) ==
    IF Len(arr) < 3 THEN Err("Invalid button click message")
    ELSE IF ~is_str(arr[2]) THEN Err("Invalid button type")
    ELSE IF ~as_u64(arr[3]).some \/ as_u64(arr[3]).n = NoLimbs THEN Err("Invalid click count")
    ELSE IF Button(arr[2].s) = "unknown" THEN Err("Unknown button type")
    ELSE Ok([NoCmd EXCEPT !.tag = "b", !.button = Button(arr[2].s),
                          !.click_count = as_u32(as_u64(arr[3]).n)])

parse_b(arr) ==
    IF Len(arr) < 3 THEN Err("Invalid button click message")
    ELSE IF ~is_str(arr[2]) THEN Err("Invalid button type")
    ELSE IF ~as_u64(arr[3]).some THEN Err("Invalid click count")
    ELSE IF Button(arr[2].s) = "unknown" THEN Err("Unknown button type")
    ELSE Ok([NoCmd EXCEPT !.tag = "b", !.button = Button(arr[2].s),
                          !.click_count = as_u32(as_u64(arr[3]).n)])

parse_w(arr) ==
    IF Len(arr) < 2 THEN Err("Invalid wheel message")
    ELSE IF ~as_i64(arr[2]).some THEN Err("Invalid dy")
    ELSE Ok([NoCmd EXCEPT !.tag = "w", !.dy = as_i32(as_i64(arr[2]).n)])

parse_t(arr) ==
    IF Len(arr) < 2 THEN Err("Invalid text message")
    ELSE IF ~is_str(arr[2]) THEN Err("Invalid text content")
    ELSE Ok([NoCmd EXCEPT !.tag = "t", !.str = arr[2].s])

parse_k(arr) ==
    IF Len(arr) < 2 THEN Err("Invalid key press message")
    ELSE IF ~is_str(arr[2]) THEN Err("Invalid key name")
    ELSE IF Key(arr[2].s) = "unknown" THEN Err("Unknown key")
    ELSE Ok([NoCmd EXCEPT !.tag = "k", !.str = Key(arr[2].s)])

\* handle_message up to its first await: Err(..) is an early return, Ok(c)
\* with c.tag = "ping" is the return of Ok(()) without touching the actuator,
\* any other Ok(c) goes on to enigo.lock().await
parse(text) ==
    IF text.j = "garbage" THEN Err("JSON parse error")
    ELSE IF text.j # "array" THEN Err("Message is not an array")
    ELSE IF Len(text.elems) = 0 THEN Err("Empty message array")
    ELSE IF ~is_str(text.elems[1]) THEN Err("Invalid command type")
    ELSE LET arr == text.elems
             cmd == arr[1].s
         IN  IF cmd = "m" THEN parse_m(arr)
             ELSE IF cmd = "b" THEN parse_b(arr)
             ELSE IF cmd = "w" THEN parse_w(arr)
             ELSE IF cmd = "t" THEN parse_t(arr)
             ELSE IF cmd = "k" THEN parse_k(arr)
             ELSE IF cmd = "ping" THEN Ok([NoCmd EXCEPT !.tag = "ping"])
             ELSE Err("Unknown command")

\* the same head in the copy of handle_message in main.rs, the one the /ws
\* route of the binary runs: its match has no "k" arm
parse_main(text) ==
    IF text.j = "garbage" THEN Err("JSON parse error")
    ELSE IF text.j # "array" THEN Err("Message is not an array")
    ELSE IF Len(text.elems) = 0 THEN Err("Empty message array")
    ELSE IF ~is_str(text.elems[1]) THEN Err("Invalid command type")
    ELSE LET arr == text.elems
             cmd == arr[1].s
         IN  IF cmd = "m" THEN parse_m(arr)
             ELSE IF cmd = "b" THEN parse_b(arr)
             ELSE IF cmd = "w" THEN parse_w(arr)
             ELSE IF cmd = "t" THEN parse_t(arr)
             ELSE IF cmd = "ping" THEN Ok([NoCmd EXCEPT !.tag = "ping"])
             ELSE Err("Unknown command")

(***************************************************************************)
(* Items of a connection's incoming stream (what socket.recv() yields)     *)
(***************************************************************************)
Text(p) == [k |-> "Text", text |-> p]
Close == [k |-> "Close", text |-> Garbage]
Binary == [k |-> "Binary", text |-> Garbage]
Ping == [k |-> "Ping", text |-> Garbage]
Pong == [k |-> "Pong", text |-> Garbage]
TransportError == [k |-> "Error", text |-> Garbage]
StreamEnd == [k |-> "None", text |-> Garbage]

MoveFrame == Text(JArray(<<JStr("m"), JInt(7), JInt(-2)>>))
DoubleClickFrame == Text(JArray(<<JStr("b"), JStr("l"), JInt(2)>>))
NotAnArrayFrame == Text(JObject)
PingFrame == Text(JArray(<<JStr("ping")>>))

\* what the peer and the transport deliver in the session-level specification
SessionItems ==
    {MoveFrame, DoubleClickFrame, NotAnArrayFrame, PingFrame,
     Close, Binary, TransportError, StreamEnd}

\* ["b", button, n] payloads: both buttons, an unknown one, counts 0..3 and
\* two counts beyond 32 bits (2^32 and 2^32 + 1)
ClickCounts == {JInt(0), JInt(1), JInt(2), JInt(3), JBig(1, 0), JBig(1, 1)}

ClickPayloads ==
    {JArray(<<JStr("b"), JStr(b), n>>) : b \in {"l", "r", "x"}, n \in ClickCounts}

\* integer arguments that fit 32 bits: 0, small ones, 2^16 multiples and the
\* two ends of the i32 range
I32Values ==
    {JInt(0), JInt(7), JInt(-2), JInt(-65536), JInt(2147483647),
     JNeg(<<0, HalfLimb, Limb - 1, Limb - 1>>)}

\* integer arguments that fit 64 but not 32 bits: 2^31, 2^32 - 1, 2^32 + 5
\* and -2^31 - 1
WideValues ==
    {JPos(<<0, HalfLimb, 0, 0>>), JPos(<<Limb - 1, Limb - 1, 0, 0>>), JBig(1, 5),
     JNeg(<<Limb - 1, HalfLimb - 1, Limb - 1, Limb - 1>>)}

\* ["m", dx, dy] payloads
MovePayloads ==
    {JArray(<<JStr("m"), dx, dy>>) : dx \in I32Values \cup WideValues,
                                     dy \in I32Values \cup WideValues}

\* ["w", dy] payloads
WheelPayloads == {JArray(<<JStr("w"), dy>>) : dy \in I32Values \cup WideValues}

\* ["b", name, 1] payloads with more names that are neither "l" nor "r"
UnknownButtonPayloads ==
    {JArray(<<JStr("b"), JStr(b), JInt(1)>>) : b \in {"", "L", "left", "m"}}

\* ["k", name] payloads: the five names of the protocol and some others
KeyPayloads ==
    {JArray(<<JStr("k"), JStr(name)>>) :
        name \in {"Escape", "PageUp", "PageDown", "Delete", "Return",
                  "Backspace", "escape", "F1", ""}}

\* payloads that fail one of the checks of handle_message, and some with one
\* argument more than needed, which pass
RejectedPayloads ==
    {JObject, JScalar} \cup
    {JArray(es) : es \in {
        << >>,
        <<JInt(1)>>,
        <<JNull, JInt(1), JInt(1)>>,
        <<JStr("x")>>,
        <<JStr("M"), JInt(1), JInt(1)>>,
        <<JStr("pong")>>,
        <<JStr("m")>>,
        <<JStr("m"), JInt(1)>>,
        <<JStr("m"), JFloat>>,
        <<JStr("m"), JFloat, JInt(1)>>,
        <<JStr("m"), JInt(1), JStr("1")>>,
        <<JStr("m"), JNull, JFloat>>,
        <<JStr("m"), JPos(<<0, 0, 0, HalfLimb>>), JInt(1)>>,
        <<JStr("m"), JInt(1), JInt(1), JInt(1)>>,
        <<JStr("b")>>,
        <<JStr("b"), JStr("l")>>,
        <<JStr("b"), JInt(1)>>,
        <<JStr("b"), JInt(1), JInt(1)>>,
        <<JStr("b"), JStr("l"), JInt(-1)>>,
        <<JStr("b"), JStr("r"), JFloat>>,
        <<JStr("b"), JStr("x"), JInt(-1)>>,
        <<JStr("b"), JNull, JNull>>,
        <<JStr("w")>>,
        <<JStr("w"), JStr("1")>>,
        <<JStr("w"), JFloat>>,
        <<JStr("w"), JPos(<<0, 0, 0, HalfLimb>>)>>,
        <<JStr("t")>>,
        <<JStr("t"), JInt(1)>>,
        <<JStr("t"), JStr("a"), JInt(1)>>,
        <<JStr("k")>>,
        <<JStr("k"), JNull>>,
        <<JStr("k"), JInt(1)>>,
        <<JStr("ping"), JNull>>}}

\* the text payloads of the single-frame specification
DispatchPayloads ==
    ClickPayloads \cup MovePayloads \cup WheelPayloads \cup UnknownButtonPayloads \cup
    KeyPayloads \cup RejectedPayloads \cup
    {MoveFrame.text, PingFrame.text, NotAnArrayFrame.text, Garbage,
     JArray(<<JStr("w"), JInt(-3)>>),
     JArray(<<JStr("t"), JStr("hi")>>),
     JArray(<<JStr("k"), JStr("Delete")>>)}

\* what follows the text frame in the single-frame specification
DispatchTails == {Close, Binary, TransportError, StreamEnd}

(***************************************************************************)
(* State                                                                   *)
(***************************************************************************)
VARIABLES
    sent,       \* sent[s]: every item the transport has delivered or will deliver on connection s
    nread,      \* nread[s]: how many items of sent[s] socket.recv() has returned
    pc,         \* pc[s]: where the task of connection s stands
    enigo,      \* enigo[s]: the Enigo instance handle_socket constructed (0: none)
    refs,       \* refs[a]: strong count of the Arc around instance a (0: dropped)
    lock,       \* lock[a]: the session holding the MutexGuard of instance a (0: free)
    cur,        \* cur[s]: the command handle_message is executing
    trace,      \* trace[s]: actuator calls and sleeps performed by session s
    results,    \* results[s]: what each call of handle_message returned
    written     \* written[s]: frames the session has written to its socket

vars == <<sent, nread, pc, enigo, refs, lock, cur, trace, results, written>>

Event(a, frame, op, x, y, str, ok) ==
    [inst |-> a, frame |-> frame, op |-> op, x |-> x, y |-> y, str |-> str, ok |-> ok]

TotalSent == LET RECURSIVE Sum(_)
                 Sum(n) == IF n = 0 THEN 0 ELSE Len(sent[n]) + Sum(n - 1)
             IN  Sum(NumSessions)

Init ==
    /\ sent = [s \in Sessions |-> << >>]
    /\ nread = [s \in Sessions |-> 0]
    /\ pc = [s \in Sessions |-> "new"]
    /\ enigo = [s \in Sessions |-> 0]
    /\ refs = [a \in Instances |-> 0]
    /\ lock = [a \in Instances |-> 0]
    /\ cur = [s \in Sessions |-> NoCmd]
    /\ trace = [s \in Sessions |-> << >>]
    /\ results = [s \in Sessions |-> << >>]
    /\ written = [s \in Sessions |-> 0]

(***************************************************************************)
(* The transport: the peer sends an item, or the stream fails or ends      *)
(***************************************************************************)
Deliver(s, item) ==
    /\ TotalSent < MaxSent
    /\ Len(sent[s]) > 0 => sent[s][Len(sent[s])] # StreamEnd
    /\ sent' = [sent EXCEPT ![s] = Append(@, item)]
    /\ UNCHANGED <<written, nread, pc, enigo, refs, lock, cur, trace, results>>

(***************************************************************************)
(* handle_socket                                                           *)
(***************************************************************************)
\* mutant of NewEnigo: one process-wide instance handed to every session
SharedEnigo(s) == 1

\* the object a successful Enigo::new(..) in session s returns: a new one each
\* time, named after the one session that constructs it
NewEnigo(s) == s

\* Enigo::new(..) is Ok(e): Arc::new(Mutex::new(e))
EnigoNewOk(s) ==
    /\ pc[s] = "new"
    /\ enigo' = [enigo EXCEPT ![s] = NewEnigo(s)]
    /\ refs' = [refs EXCEPT ![NewEnigo(s)] = @ + 1]
    /\ pc' = [pc EXCEPT ![s] = "recv"]
    /\ UNCHANGED <<written, sent, nread, lock, cur, trace, results>>

\* mutant of EnigoNewErr: the error is logged but the function does not return
EnigoNewErrContinues(s) ==
    /\ pc[s] = "new"
    /\ pc' = [pc EXCEPT ![s] = "recv"]
    /\ UNCHANGED <<written, sent, nread, enigo, refs, lock, cur, trace, results>>

\* Enigo::new(..) is Err(err): log and return
EnigoNewErr(s) ==
    /\ pc[s] = "new"
    /\ pc' = [pc EXCEPT ![s] = "done"]
    /\ UNCHANGED <<written, sent, nread, enigo, refs, lock, cur, trace, results>>

\* mutant of CanRecv: the loop also polls the socket during the inter-click sleep
CanRecvWhileSleeping(s) == pc[s] \in {"recv", "sleep"} /\ nread[s] < Len(sent[s])

\* socket.recv().await has an item to return
CanRecv(s) == pc[s] = "recv" /\ nread[s] < Len(sent[s])

NextItem(s) == sent[s][nread[s] + 1]

\* the body of handle_socket ends: the local Arc is dropped
SocketReturn(s) ==
    /\ pc' = [pc EXCEPT ![s] = "done"]
    /\ refs' = [refs EXCEPT ![enigo[s]] = @ - 1]

\* mutant of RecvText: the "ping" arm goes on to the actuator like the others
RecvTextPingLocks(s) ==
    /\ pc[s] = "recv" /\ nread[s] < Len(sent[s])
    /\ sent[s][nread[s] + 1].k = "Text"
    /\ nread' = [nread EXCEPT ![s] = @ + 1]
    /\ LET r == parse(sent[s][nread[s] + 1].text)
       IN  IF r.err # ""
           THEN /\ results' = [results EXCEPT ![s] = Append(@, r.err)]
                /\ UNCHANGED <<pc, refs, cur>>
           ELSE /\ pc' = [pc EXCEPT ![s] = "lock"]
                /\ refs' = [refs EXCEPT ![enigo[s]] = @ + 1]
                /\ cur' = [cur EXCEPT ![s] = r.cmd]
                /\ UNCHANGED results
    /\ UNCHANGED <<written, sent, enigo, lock, trace>>

\* mutant of RecvText: an Err from handle_message breaks out of the loop
RecvTextBreaksOnError(s) ==
    /\ pc[s] = "recv" /\ nread[s] < Len(sent[s])
    /\ sent[s][nread[s] + 1].k = "Text"
    /\ nread' = [nread EXCEPT ![s] = @ + 1]
    /\ LET r == parse(sent[s][nread[s] + 1].text)
       IN  IF r.err # ""
           THEN /\ results' = [results EXCEPT ![s] = Append(@, r.err)]
                /\ pc' = [pc EXCEPT ![s] = "done"]
                /\ refs' = [refs EXCEPT ![enigo[s]] = @ - 1]
                /\ UNCHANGED cur
           ELSE IF r.cmd.tag = "ping"
           THEN /\ results' = [results EXCEPT ![s] = Append(@, "Ok")]
                /\ UNCHANGED <<pc, refs, cur>>
           ELSE /\ pc' = [pc EXCEPT ![s] = "lock"]
                /\ refs' = [refs EXCEPT ![enigo[s]] = @ + 1]
                /\ cur' = [cur EXCEPT ![s] = r.cmd]
                /\ UNCHANGED results
    /\ UNCHANGED <<written, sent, enigo, lock, trace>>

\* Ok(Message::Text(text)): handle_message(&text, Arc::clone(&enigo)) runs up
\* to its first await; an early return drops the clone again
RecvText(s) ==
    /\ CanRecv(s)
    /\ NextItem(s).k = "Text"
    /\ nread' = [nread EXCEPT ![s] = @ + 1]
    /\ LET r == parse(NextItem(s).text)
       IN  IF r.err # ""
           THEN /\ results' = [results EXCEPT ![s] = Append(@, r.err)]
                /\ UNCHANGED <<pc, refs, cur>>
           ELSE IF r.cmd.tag = "ping"
           THEN /\ results' = [results EXCEPT ![s] = Append(@, "Ok")]
                /\ UNCHANGED <<pc, refs, cur>>
           ELSE /\ pc' = [pc EXCEPT ![s] = "lock"]
                /\ refs' = [refs EXCEPT ![enigo[s]] = @ + 1]
                /\ cur' = [cur EXCEPT ![s] = r.cmd]
                /\ UNCHANGED results
    /\ UNCHANGED <<written, sent, enigo, lock, trace>>

\* the same arm of handle_socket in main.rs, calling main.rs's handle_message
RecvTextMain(s) ==
    /\ CanRecv(s)
    /\ NextItem(s).k = "Text"
    /\ nread' = [nread EXCEPT ![s] = @ + 1]
    /\ LET r == parse_main(NextItem(s).text)
       IN  IF r.err # ""
           THEN /\ results' = [results EXCEPT ![s] = Append(@, r.err)]
                /\ UNCHANGED <<pc, refs, cur>>
           ELSE IF r.cmd.tag = "ping"
           THEN /\ results' = [results EXCEPT ![s] = Append(@, "Ok")]
                /\ UNCHANGED <<pc, refs, cur>>
           ELSE /\ pc' = [pc EXCEPT ![s] = "lock"]
                /\ refs' = [refs EXCEPT ![enigo[s]] = @ + 1]
                /\ cur' = [cur EXCEPT ![s] = r.cmd]
                /\ UNCHANGED results
    /\ UNCHANGED <<written, sent, enigo, lock, trace>>

\* mutant of RecvClose: the close frame is logged but the loop goes on
RecvCloseContinues(s) ==
    /\ pc[s] = "recv" /\ nread[s] < Len(sent[s])
    /\ sent[s][nread[s] + 1].k = "Close"
    /\ nread' = [nread EXCEPT ![s] = @ + 1]
    /\ UNCHANGED <<written, sent, pc, enigo, refs, lock, cur, trace, results>>

\* Ok(Message::Close(_)): break
RecvClose(s) ==
    /\ CanRecv(s)
    /\ NextItem(s).k = "Close"
    /\ nread' = [nread EXCEPT ![s] = @ + 1]
    /\ SocketReturn(s)
    /\ UNCHANGED <<written, sent, enigo, lock, cur, trace, results>>

\* mutant of RecvErr: the read error is logged but the loop goes on
RecvErrContinues(s) ==
    /\ pc[s] = "recv" /\ nread[s] < Len(sent[s])
    /\ sent[s][nread[s] + 1].k = "Error"
    /\ nread' = [nread EXCEPT ![s] = @ + 1]
    /\ UNCHANGED <<written, sent, pc, enigo, refs, lock, cur, trace, results>>

\* Err(e): break
RecvErr(s) ==
    /\ CanRecv(s)
    /\ NextItem(s).k = "Error"
    /\ nread' = [nread EXCEPT ![s] = @ + 1]
    /\ SocketReturn(s)
    /\ UNCHANGED <<written, sent, enigo, lock, cur, trace, results>>

\* mutant of RecvOther: a binary message is taken for a text frame that
\* cannot be parsed, and reported
RecvOtherReportsError(s) ==
    /\ CanRecv(s)
    /\ NextItem(s).k \notin {"Text", "Close", "Error", "None"}
    /\ nread' = [nread EXCEPT ![s] = @ + 1]
    /\ results' = [results EXCEPT ![s] =
                      IF NextItem(s).k = "Binary" THEN Append(@, "JSON parse error") ELSE @]
    /\ UNCHANGED <<written, sent, pc, enigo, refs, lock, cur, trace>>

\* mutant of RecvOther: the frame is answered (an echo, a pong)
RecvOtherReplies(s) ==
    /\ CanRecv(s)
    /\ NextItem(s).k \notin {"Text", "Close", "Error", "None"}
    /\ nread' = [nread EXCEPT ![s] = @ + 1]
    /\ written' = [written EXCEPT ![s] = @ + 1]
    /\ UNCHANGED <<sent, pc, enigo, refs, lock, cur, trace, results>>

\* _ => {} (binary, ping, pong)
RecvOther(s) ==
    /\ CanRecv(s)
    /\ NextItem(s).k \notin {"Text", "Close", "Error", "None"}
    /\ nread' = [nread EXCEPT ![s] = @ + 1]
    /\ UNCHANGED <<written, sent, pc, enigo, refs, lock, cur, trace, results>>

\* socket.recv() is None: the while-let loop ends
RecvNone(s) ==
    /\ CanRecv(s)
    /\ NextItem(s).k = "None"
    /\ nread' = [nread EXCEPT ![s] = @ + 1]
    /\ SocketReturn(s)
    /\ UNCHANGED <<written, sent, enigo, lock, cur, trace, results>>

(***************************************************************************)
(* handle_message, from enigo.lock().await on                              *)
(***************************************************************************)
\* mutant of MessageReturn: the MutexGuard outlives the call (it is leaked)
MessageReturnKeepsLock(s, r) ==
    /\ results' = [results EXCEPT ![s] = Append(@, r)]
    /\ refs' = [refs EXCEPT ![enigo[s]] = @ - 1]
    /\ cur' = [cur EXCEPT ![s] = NoCmd]
    /\ pc' = [pc EXCEPT ![s] = "recv"]
    /\ UNCHANGED lock

\* handle_message returns r: the MutexGuard and the Arc clone are dropped and
\* handle_socket goes back to socket.recv()
MessageReturn(s, r) ==
    /\ results' = [results EXCEPT ![s] = Append(@, r)]
    /\ lock' = [lock EXCEPT ![enigo[s]] = 0]
    /\ refs' = [refs EXCEPT ![enigo[s]] = @ - 1]
    /\ cur' = [cur EXCEPT ![s] = NoCmd]
    /\ pc' = [pc EXCEPT ![s] = "recv"]

\* mutant of Lock: one mutex for the whole process
LockProcessWide(s) ==
    /\ pc[s] = "lock"
    /\ \A a \in Instances : lock[a] = 0
    /\ lock' = [lock EXCEPT ![enigo[s]] = s]
    /\ pc' = [pc EXCEPT ![s] = "call"]
    /\ UNCHANGED <<written, sent, nread, enigo, refs, cur, trace, results>>

\* enigo.lock().await completes once the mutex is free
Lock(s) ==
    /\ pc[s] = "lock"
    /\ lock[enigo[s]] = 0
    /\ lock' = [lock EXCEPT ![enigo[s]] = s]
    /\ pc' = [pc EXCEPT ![s] = "call"]
    /\ UNCHANGED <<written, sent, nread, enigo, refs, cur, trace, results>>

\* mutant of CallEvent: the wheel amount is negated (wrapping) on its way to
\* the actuator
CallEventInvertsWheel(s, ok) ==
    LET c == cur[s]
    IN  IF c.tag = "m" THEN Event(enigo[s], nread[s], "move_mouse", c.dx, c.dy, "", ok)
        ELSE IF c.tag = "w"
        THEN Event(enigo[s], nread[s], "scroll", 0,
                   IF c.dy = as_i32(<<0, HalfLimb>>) THEN c.dy ELSE 0 - c.dy, "", ok)
        ELSE IF c.tag = "t" THEN Event(enigo[s], nread[s], "text", 0, 0, c.str, ok)
        ELSE Event(enigo[s], nread[s], "key", 0, 0, c.str, ok)

\* the one actuator call of "m", "w", "t" and "k"
CallEvent(s, ok) ==
    LET c == cur[s]
    IN  IF c.tag = "m" THEN Event(enigo[s], nread[s], "move_mouse", c.dx, c.dy, "", ok)
        ELSE IF c.tag = "w" THEN Event(enigo[s], nread[s], "scroll", 0, c.dy, "", ok)
        ELSE IF c.tag = "t" THEN Event(enigo[s], nread[s], "text", 0, 0, c.str, ok)
        ELSE Event(enigo[s], nread[s], "key", 0, 0, c.str, ok)

\* mutant of CallError: a failed click is not reported (the result of
\* enigo.button is dropped)
CallErrorDropsClick(c) ==
    IF c.tag = "m" THEN "Mouse move failed"
    ELSE IF c.tag = "w" THEN "Wheel scroll failed"
    ELSE IF c.tag = "t" THEN "Text input failed"
    ELSE IF c.tag = "k" THEN "Key press failed"
    ELSE "Ok"

CallError(c) ==
    IF c.tag = "m" THEN "Mouse move failed"
    ELSE IF c.tag = "w" THEN "Wheel scroll failed"
    ELSE IF c.tag = "t" THEN "Text input failed"
    ELSE IF c.tag = "k" THEN "Key press failed"
    ELSE "Button click failed"

Call(s, ok) ==
    /\ pc[s] = "call"
    /\ cur[s].tag \in {"m", "w", "t", "k"}
    /\ trace' = [trace EXCEPT ![s] = Append(@, CallEvent(s, ok))]
    /\ MessageReturn(s, IF ok THEN "Ok" ELSE CallError(cur[s]))
    /\ UNCHANGED <<written, sent, nread, enigo>>

\* the sleep follows a click when click_count > 1
SleepsAfterClick(click_count) == u32_gt(click_count, 1)

\* mutant of Click: a failed click is reported but the loop tries it again
ClickRetries(s, ok) ==
    /\ pc[s] = "call"
    /\ cur[s].tag = "b"
    /\ cur[s].click_count[2] > 0 \/ cur[s].click_count[1] > cur[s].i
    /\ trace' = [trace EXCEPT ![s] =
                    Append(@, [inst |-> enigo[s], frame |-> nread[s], op |-> "button",
                               x |-> 0, y |-> 0, str |-> cur[s].button, ok |-> ok])]
    /\ cur' = [cur EXCEPT ![s].i = IF ok THEN @ + 1 ELSE @]
    /\ pc' = [pc EXCEPT ![s] = IF ok /\ cur[s].click_count # <<1, 0>> THEN "sleep" ELSE "call"]
    /\ UNCHANGED <<written, sent, nread, enigo, refs, lock, results>>

\* one iteration of `for _ in 0..click_count`, up to its await or its `?`
Click(s, ok) ==
    /\ pc[s] = "call"
    /\ cur[s].tag = "b"
    /\ u32_gt(cur[s].click_count, cur[s].i)
    /\ trace' = [trace EXCEPT ![s] =
                    Append(@, Event(enigo[s], nread[s], "button", 0, 0, cur[s].button, ok))]
    /\ IF ~ok
       THEN MessageReturn(s, CallError(cur[s]))
       ELSE /\ cur' = [cur EXCEPT ![s].i = @ + 1]
            /\ pc' = [pc EXCEPT ![s] =
                        IF SleepsAfterClick(cur[s].click_count) THEN "sleep" ELSE "call"]
            /\ UNCHANGED <<refs, lock, results>>
    /\ UNCHANGED <<written, sent, nread, enigo>>

\* mutant of Sleep: the delay is raced against the socket (a select!), and a
\* close frame waiting there drops the rest of the command
SleepSelectsClose(s) ==
    /\ pc[s] = "sleep"
    /\ IF nread[s] < Len(sent[s]) /\ NextItem(s).k = "Close"
       THEN /\ nread' = [nread EXCEPT ![s] = @ + 1]
            /\ pc' = [pc EXCEPT ![s] = "done"]
            /\ lock' = [lock EXCEPT ![enigo[s]] = 0]
            /\ refs' = [refs EXCEPT ![enigo[s]] = 0]
            /\ cur' = [cur EXCEPT ![s] = NoCmd]
            /\ UNCHANGED trace
       ELSE /\ trace' = [trace EXCEPT ![s] =
                    Append(@, Event(enigo[s], nread[s], "sleep", InterClickDelayMs, 0, "", TRUE))]
            /\ pc' = [pc EXCEPT ![s] = "call"]
            /\ UNCHANGED <<nread, lock, refs, cur>>
    /\ UNCHANGED <<written, sent, enigo, results>>

\* tokio::time::sleep(50 ms).await completes
Sleep(s) ==
    /\ pc[s] = "sleep"
    /\ trace' = [trace EXCEPT ![s] =
                    Append(@, Event(enigo[s], nread[s], "sleep", InterClickDelayMs, 0, "", TRUE))]
    /\ pc' = [pc EXCEPT ![s] = "call"]
    /\ UNCHANGED <<written, sent, nread, enigo, refs, lock, cur, results>>

\* mutant of ClickDone: the guard is leaked (mem::forget) when the loop ends
ClickDoneLeaksGuard(s) ==
    /\ pc[s] = "call"
    /\ cur[s].tag = "b"
    /\ ~u32_gt(cur[s].click_count, cur[s].i)
    /\ results' = [results EXCEPT ![s] = Append(@, "Ok")]
    /\ refs' = [refs EXCEPT ![enigo[s]] = @ - 1]
    /\ cur' = [cur EXCEPT ![s] = NoCmd]
    /\ pc' = [pc EXCEPT ![s] = "recv"]
    /\ UNCHANGED <<written, sent, nread, enigo, trace, lock>>

\* the for loop is exhausted: Ok(())
ClickDone(s) ==
    /\ pc[s] = "call"
    /\ cur[s].tag = "b"
    /\ ~u32_gt(cur[s].click_count, cur[s].i)
    /\ MessageReturn(s, "Ok")
    /\ UNCHANGED <<written, sent, nread, enigo, trace>>

(***************************************************************************)
(* Specification                                                           *)
(***************************************************************************)
Next ==
    \E s \in Sessions :
        \/ \E item \in SessionItems : Deliver(s, item)
        \/ EnigoNewOk(s)
        \/ EnigoNewErr(s)
        \/ RecvText(s)
        \/ RecvClose(s)
        \/ RecvErr(s)
        \/ RecvOther(s)
        \/ RecvNone(s)
        \/ Lock(s)
        \/ \E ok \in BOOLEAN : Call(s, ok)
        \/ \E ok \in BOOLEAN : Click(s, ok)
        \/ Sleep(s)
        \/ ClickDone(s)

Spec == Init /\ [][Next]_vars

\* the streams of StreamLen items a connection can deliver: nothing follows
\* the end of the stream
RECURSIVE StreamsOf(_)
StreamsOf(n) ==
    IF n = 0 THEN {<< >>}
    ELSE {Append(st, item) : st \in {t \in StreamsOf(n - 1) : \A i \in 1..Len(t) : t[i] # StreamEnd},
                             item \in SessionItems}

\* StreamLen items sent back to back on connection 1, all of them delivered
\* before the session starts; nothing more is delivered.
InitStream ==
    /\ sent \in {[s \in Sessions |-> IF s = 1 THEN st ELSE << >>] : st \in StreamsOf(StreamLen)}
    /\ nread = [s \in Sessions |-> 0]
    /\ pc = [s \in Sessions |-> "new"]
    /\ enigo = [s \in Sessions |-> 0]
    /\ refs = [a \in Instances |-> 0]
    /\ lock = [a \in Instances |-> 0]
    /\ cur = [s \in Sessions |-> NoCmd]
    /\ trace = [s \in Sessions |-> << >>]
    /\ results = [s \in Sessions |-> << >>]
    /\ written = [s \in Sessions |-> 0]

NextStream ==
    \E s \in Sessions :
        \/ EnigoNewOk(s)
        \/ EnigoNewErr(s)
        \/ RecvText(s)
        \/ RecvClose(s)
        \/ RecvErr(s)
        \/ RecvOther(s)
        \/ RecvNone(s)
        \/ Lock(s)
        \/ \E ok \in BOOLEAN : Call(s, ok)
        \/ \E ok \in BOOLEAN : Click(s, ok)
        \/ Sleep(s)
        \/ ClickDone(s)

SpecStream == InitStream /\ [][NextStream]_vars

\* the messages that reach the `_ => {}` arm of the loop
OtherItems == {Binary, Ping, Pong}

\* Three items already delivered on connection 1, the second a binary, ping
\* or pong message; nothing more is delivered.
InitSkip ==
    /\ sent \in {[s \in Sessions |-> IF s = 1 THEN <<a, o, b>> ELSE << >>] :
                    a \in SessionItems \ {StreamEnd}, o \in OtherItems, b \in SessionItems}
    /\ nread = [s \in Sessions |-> 0]
    /\ pc = [s \in Sessions |-> "new"]
    /\ enigo = [s \in Sessions |-> 0]
    /\ refs = [a \in Instances |-> 0]
    /\ lock = [a \in Instances |-> 0]
    /\ cur = [s \in Sessions |-> NoCmd]
    /\ trace = [s \in Sessions |-> << >>]
    /\ results = [s \in Sessions |-> << >>]
    /\ written = [s \in Sessions |-> 0]

SpecSkip == InitSkip /\ [][NextStream]_vars

\* One text frame, then one other item, already delivered on connection 1;
\* nothing more is delivered.
InitDispatch ==
    /\ sent \in {[s \in Sessions |-> IF s = 1 THEN <<Text(p), tail>> ELSE << >>] :
                    p \in DispatchPayloads, tail \in DispatchTails}
    /\ nread = [s \in Sessions |-> 0]
    /\ pc = [s \in Sessions |-> "new"]
    /\ enigo = [s \in Sessions |-> 0]
    /\ refs = [a \in Instances |-> 0]
    /\ lock = [a \in Instances |-> 0]
    /\ cur = [s \in Sessions |-> NoCmd]
    /\ trace = [s \in Sessions |-> << >>]
    /\ results = [s \in Sessions |-> << >>]
    /\ written = [s \in Sessions |-> 0]

NextDispatch ==
    \E s \in Sessions :
        \/ EnigoNewOk(s)
        \/ EnigoNewErr(s)
        \/ RecvText(s)
        \/ RecvClose(s)
        \/ RecvErr(s)
        \/ RecvOther(s)
        \/ RecvNone(s)
        \/ Lock(s)
        \/ \E ok \in BOOLEAN : Call(s, ok)
        \/ \E ok \in BOOLEAN : Click(s, ok)
        \/ Sleep(s)
        \/ ClickDone(s)

SpecDispatch == InitDispatch /\ [][NextDispatch]_vars

\* The single-frame specification of the binary: handle_socket and
\* handle_message as main.rs has them (the rest of the two copies is the same
\* code line for line).
NextMain ==
    \E s \in Sessions :
        \/ EnigoNewOk(s)
        \/ EnigoNewErr(s)
        \/ RecvTextMain(s)
        \/ RecvClose(s)
        \/ RecvErr(s)
        \/ RecvOther(s)
        \/ RecvNone(s)
        \/ Lock(s)
        \/ \E ok \in BOOLEAN : Call(s, ok)
        \/ \E ok \in BOOLEAN : Click(s, ok)
        \/ Sleep(s)
        \/ ClickDone(s)

SpecMain == InitDispatch /\ [][NextMain]_vars

TypeOK ==
    /\ pc \in [Sessions -> {"new", "recv", "lock", "call", "sleep", "done"}]
    /\ enigo \in [Sessions -> 0..NumSessions]
    /\ refs \in [Instances -> 0..2]
    /\ lock \in [Instances -> 0..NumSessions]
    /\ \A s \in Sessions : nread[s] \in 0..Len(sent[s])

(***************************************************************************)
(* Vocabulary of the properties                                            *)
(***************************************************************************)
\* the session states of the design: Open once the actuator exists, Closed
\* once handle_socket has returned
State(s) ==
    IF pc[s] = "new" THEN "Connecting"
    ELSE IF pc[s] = "done" THEN "Closed"
    ELSE "Open"

\* handle_message is running for session s
InDispatch(s) == pc[s] \in {"lock", "call", "sleep"}

\* the items socket.recv() has returned so far
ReadItems(s) == SubSeq(sent[s], 1, nread[s])

IsText(item) == item.k = "Text"
Fails(item) == IsText(item) /\ parse(item.text).err # ""
Dispatches(item) == IsText(item) /\ parse(item.text).err = ""

IsCall(e) == e.op # "sleep"

\* the actuator calls of session s, in the order issued
Calls(s) == SelectSeq(trace[s], IsCall)

\* the events of session s that belong to the item at position k of the stream
EventsOf(s, k) == SelectSeq(trace[s], LAMBDA e : e.frame = k)

\* the operation a command calls on the actuator
OpOf(c) ==
    IF c.tag = "m" THEN "move_mouse"
    ELSE IF c.tag = "b" THEN "button"
    ELSE IF c.tag = "w" THEN "scroll"
    ELSE IF c.tag = "t" THEN "text"
    ELSE IF c.tag = "k" THEN "key"
    ELSE "none"

\* the call a one-call command issues, outcome aside
SingleCall(c) ==
    IF c.tag = "m" THEN [op |-> "move_mouse", x |-> c.dx, y |-> c.dy, str |-> ""]
    ELSE IF c.tag = "w" THEN [op |-> "scroll", x |-> 0, y |-> c.dy, str |-> ""]
    ELSE IF c.tag = "t" THEN [op |-> "text", x |-> 0, y |-> 0, str |-> c.str]
    ELSE [op |-> "key", x |-> 0, y |-> 0, str |-> c.str]

SameCall(e, call) ==
    e.op = call.op /\ e.x = call.x /\ e.y = call.y /\ e.str = call.str

\* how many leading calls of cs a completed dispatch of the click command c
\* accounts for, having issued i already (-1: cs is not what c produces)
RECURSIVE ClickTake(_, _, _)
ClickTake(c, cs, i) ==
    IF ~u32_gt(c.click_count, i) THEN i
    ELSE IF Len(cs) < i + 1 THEN -1
    ELSE IF ~SameCall(cs[i + 1], [op |-> "button", x |-> 0, y |-> 0, str |-> c.button]) THEN -1
    ELSE IF ~cs[i + 1].ok THEN i + 1
    ELSE ClickTake(c, cs, i + 1)

\* the same for any command
Take(c, cs) ==
    IF c.tag = "ping" THEN 0
    ELSE IF c.tag = "b" THEN ClickTake(c, cs, 0)
    ELSE IF Len(cs) >= 1 /\ SameCall(cs[1], SingleCall(c)) THEN 1
    ELSE -1

\* cs is exactly what dispatching the text frames fs one after the other,
\* each to completion, issues
RECURSIVE Replay(_, _)
Replay(fs, cs) ==
    IF fs = << >> THEN cs = << >>
    ELSE LET n == Take(parse(fs[1].text).cmd, cs)
         IN  n >= 0 /\ Replay(Tail(fs), SubSeq(cs, n + 1, Len(cs)))

\* the text frames among the items read
TextRead(s) == SelectSeq(ReadItems(s), IsText)

(***************************************************************************)
(* C1  Frames of one connection are dispatched in the order sent and one   *)
(* at a time: the events of the trace are ordered by the position of their *)
(* frame in the stream, each belongs to a text frame already read and is   *)
(* the operation that frame asks for, and every text frame read before the *)
(* one in dispatch (if any) has returned.                                  *)
(***************************************************************************)
C1_Sequential ==
    \A s \in Sessions :
        /\ \A i, j \in 1..Len(trace[s]) : i < j => trace[s][i].frame <= trace[s][j].frame
        /\ \A i \in 1..Len(trace[s]) :
              LET e == trace[s][i]
              IN  /\ e.frame \in 1..nread[s]
                  /\ Dispatches(sent[s][e.frame])
                  /\ IsCall(e) => e.op = OpOf(parse(sent[s][e.frame].text).cmd)
        /\ Len(TextRead(s)) = Len(results[s]) + (IF InDispatch(s) THEN 1 ELSE 0)
        /\ InDispatch(s) =>
              /\ Dispatches(sent[s][nread[s]])
              /\ [cur[s] EXCEPT !.i = 0] = parse(sent[s][nread[s]].text).cmd

C1_Witness ==
    \E s \in Sessions :
        /\ pc[s] = "sleep"
        /\ nread[s] = 2
        /\ Len(sent[s]) > 2
        /\ \E i \in 1..Len(trace[s]) : trace[s][i].frame = 1
        /\ \E i \in 1..Len(trace[s]) : trace[s][i].frame = 2

(***************************************************************************)
(* C2  A text frame that fails parsing or validation changes nothing but   *)
(* its own result: right after it is read the session is Open and waiting  *)
(* for the next frame with the lock free, and whenever no dispatch is in   *)
(* flight the actuator calls issued so far are exactly those of the frames *)
(* read with every failing frame removed.                                  *)
(***************************************************************************)
C2_FailingFrameIsSkipped ==
    \A s \in Sessions :
        /\ (nread[s] > 0 /\ Fails(sent[s][nread[s]])) =>
              /\ pc[s] = "recv"
              /\ State(s) = "Open"
              /\ lock[enigo[s]] = 0
              /\ results[s][Len(results[s])] = parse(sent[s][nread[s]].text).err
        /\ (enigo[s] # 0 /\ ~InDispatch(s)) =>
              Replay(SelectSeq(ReadItems(s), Dispatches), Calls(s))

C2_Witness ==
    \E s \in Sessions :
        /\ nread[s] = 3
        /\ Dispatches(sent[s][1]) /\ Fails(sent[s][2]) /\ Dispatches(sent[s][3])
        /\ pc[s] = "recv"
        /\ \E i \in 1..Len(trace[s]) : trace[s][i].frame = 1
        /\ \E i \in 1..Len(trace[s]) : trace[s][i].frame = 3

(***************************************************************************)
(* C3  A failed actuator call ends its dispatch and nothing else: no event *)
(* of the same frame follows it (no retry), and until the next item is     *)
(* read the session is Open, waiting for the next frame, with the lock     *)
(* free and the error as the result; the frames read after it are          *)
(* dispatched as usual.                                                    *)
(***************************************************************************)
C3_ActuatorFailureIsLocal ==
    \A s \in Sessions :
        /\ \A i \in 1..Len(trace[s]) :
              ~trace[s][i].ok =>
                  /\ i < Len(trace[s]) => trace[s][i + 1].frame > trace[s][i].frame
                  /\ i = Len(trace[s]) /\ nread[s] = trace[s][i].frame =>
                        /\ pc[s] = "recv"
                        /\ lock[enigo[s]] = 0
                        /\ refs[enigo[s]] = 1
                        /\ results[s][Len(results[s])] \notin {"", "Ok"}
        /\ (enigo[s] # 0 /\ ~InDispatch(s)) =>
              Replay(SelectSeq(ReadItems(s), Dispatches), Calls(s))
        /\ (pc[s] = "done" /\ Len(trace[s]) > 0 /\ ~trace[s][Len(trace[s])].ok) =>
              sent[s][nread[s]].k \in {"Close", "Error", "None"}

C3_Witness ==
    \E s \in Sessions :
        /\ Len(trace[s]) >= 2
        /\ ~trace[s][1].ok
        /\ trace[s][2].frame > trace[s][1].frame
        /\ trace[s][2].ok

(***************************************************************************)
(* C4  A session whose Enigo could not be constructed has returned without *)
(* reading a frame or calling the actuator, whatever has been delivered on *)
(* its connection.                                                         *)
(***************************************************************************)
C4_NoActuatorNoLoop ==
    \A s \in Sessions :
        enigo[s] = 0 =>
            /\ pc[s] \in {"new", "done"}
            /\ nread[s] = 0
            /\ trace[s] = << >>
            /\ results[s] = << >>

C4_Witness ==
    \E s \in Sessions :
        /\ enigo[s] = 0
        /\ pc[s] = "done"
        /\ Len(sent[s]) >= 2
        /\ IsText(sent[s][1])

(***************************************************************************)
(* C5  A close frame is the last item a session reads: once read, the      *)
(* session is Closed, and no later item of the stream is read or           *)
(* dispatched.                                                             *)
(***************************************************************************)
C5_CloseStops ==
    \A s \in Sessions :
        \A k \in 1..nread[s] :
            sent[s][k].k = "Close" =>
                /\ k = nread[s]
                /\ State(s) = "Closed"
                /\ \A i \in 1..Len(trace[s]) : trace[s][i].frame < k
                /\ Len(results[s]) = Len(SelectSeq(SubSeq(sent[s], 1, k), IsText))

C5_Witness ==
    \E s \in Sessions :
        /\ nread[s] >= 1
        /\ sent[s][nread[s]].k = "Close"
        /\ Len(sent[s]) > nread[s]
        /\ Dispatches(sent[s][nread[s] + 1])

(***************************************************************************)
(* C6  A transport read error is the last item a session reads: once read, *)
(* the session is Closed, and no later item of the stream is read or       *)
(* dispatched.                                                             *)
(***************************************************************************)
C6_TransportErrorStops ==
    \A s \in Sessions :
        \A k \in 1..nread[s] :
            sent[s][k].k = "Error" =>
                /\ k = nread[s]
                /\ State(s) = "Closed"
                /\ \A i \in 1..Len(trace[s]) : trace[s][i].frame < k
                /\ Len(results[s]) = Len(SelectSeq(SubSeq(sent[s], 1, k), IsText))

C6_Witness ==
    \E s \in Sessions :
        /\ nread[s] >= 1
        /\ sent[s][nread[s]].k = "Error"
        /\ Len(sent[s]) > nread[s]
        /\ Dispatches(sent[s][nread[s] + 1])

(***************************************************************************)
(* C7  An Open session holds one live Enigo of its own, constructed before *)
(* any frame is read; no two sessions hold the same instance, every event  *)
(* of a session is on its own instance and a lock is only ever held by the *)
(* owner of its instance; once a session is Closed, by whatever path, its  *)
(* instance has been dropped.                                              *)
(***************************************************************************)
C7_OneActuatorPerSession ==
    \A s \in Sessions :
        /\ State(s) = "Open" => enigo[s] # 0 /\ refs[enigo[s]] >= 1
        /\ nread[s] > 0 => enigo[s] # 0
        /\ \A t \in Sessions : (t # s /\ enigo[s] # 0) => enigo[t] # enigo[s]
        /\ \A i \in 1..Len(trace[s]) : trace[s][i].inst = enigo[s]
        /\ \A a \in Instances : lock[a] = s => enigo[s] = a
        /\ (State(s) = "Closed" /\ enigo[s] # 0) =>
              refs[enigo[s]] = 0 /\ lock[enigo[s]] = 0

C7_Witness ==
    \E s, t \in Sessions :
        /\ s # t
        /\ State(s) = "Closed" /\ enigo[s] # 0 /\ Len(trace[s]) > 0
        /\ State(t) = "Open"

(***************************************************************************)
(* C8  The lock of a session's actuator is held by the session whenever it *)
(* is between acquiring it and returning from handle_message, which covers *)
(* every actuator call and every inter-click sleep, and it is free         *)
(* whenever the session waits for the next frame or has returned.          *)
(***************************************************************************)
C8_LockSpansDispatch ==
    \A s \in Sessions :
        /\ pc[s] \in {"call", "sleep"} => lock[enigo[s]] = s
        /\ (pc[s] \in {"recv", "lock", "done"} /\ enigo[s] # 0) => lock[enigo[s]] = 0
        /\ (pc[s] = "recv" /\ Len(trace[s]) > 0) =>
              Len(results[s]) > 0 /\ lock[trace[s][Len(trace[s])].inst] = 0

C8_Witness ==
    \E s \in Sessions :
        /\ pc[s] = "sleep"
        /\ lock[enigo[s]] = s
        /\ cur[s].i = 1

(***************************************************************************)
(* Button clicks                                                           *)
(***************************************************************************)
\* the payload is ["b", "l"|"r", n] with n an integer >= 1
IsClickPayload(p) ==
    /\ p.j = "array"
    /\ Len(p.elems) = 3
    /\ p.elems[1] = JStr("b")
    /\ p.elems[2] \in {JStr("l"), JStr("r")}
    /\ p.elems[3].t = "posint"
    /\ p.elems[3].n # NoLimbs

ResolvedButton(p) == IF p.elems[2].s = "l" THEN "Left" ELSE "Right"

\* the dispatch of the item at position k of the stream of s has returned
Returned(s, k) == k < nread[s] \/ (k = nread[s] /\ ~InDispatch(s))

\* what handle_message returned for the text frame at position k
ResultOf(s, k) == results[s][Len(SelectSeq(SubSeq(sent[s], 1, k), IsText))]

IsClick(e) == e.op = "button"
IsSleep(e) == e.op = "sleep"

\* in es every two consecutive clicks have one 50 ms sleep between them
ClicksSeparated(es) ==
    \A i, j \in 1..Len(es) :
        (i < j /\ IsClick(es[i]) /\ IsClick(es[j])
               /\ \A m \in (i + 1)..(j - 1) : ~IsClick(es[m])) =>
            /\ j = i + 2
            /\ IsSleep(es[i + 1])
            /\ es[i + 1].x = InterClickDelayMs

(***************************************************************************)
(* C9 as stated: once the dispatch of ["b", "l"|"r", n], n >= 1, has       *)
(* returned, it has issued exactly n click calls, all on the resolved      *)
(* button, any two consecutive ones separated by a 50 ms sleep.            *)
(***************************************************************************)
C9_ExactlyNClicks ==
    \A s \in Sessions :
        \A k \in 1..nread[s] :
            (IsText(sent[s][k]) /\ IsClickPayload(sent[s][k].text) /\ Returned(s, k)) =>
                LET es == EventsOf(s, k)
                    clicks == SelectSeq(es, IsClick)
                IN  /\ sent[s][k].text.elems[3].n = <<Len(clicks), 0, 0, 0>>
                    /\ \A i \in 1..Len(clicks) :
                          clicks[i].str = ResolvedButton(sent[s][k].text)
                    /\ ClicksSeparated(es)

(***************************************************************************)
(* C9 as amended: the dispatch of ["b", "l"|"r", n], n >= 1, issues click  *)
(* calls on the resolved button, any two consecutive ones separated by a   *)
(* 50 ms sleep, until n mod 2^32 of them have been issued or one of them   *)
(* fails; a dispatch that returned success issued exactly n mod 2^32 click *)
(* calls (n itself when n < 2^32), one that returned an error stopped at   *)
(* its first failed click.                                                 *)
(***************************************************************************)
C9_ClicksUntilCountOrFailure ==
    \A s \in Sessions :
        \A k \in 1..nread[s] :
            (IsText(sent[s][k]) /\ IsClickPayload(sent[s][k].text)) =>
                LET es == EventsOf(s, k)
                    clicks == SelectSeq(es, IsClick)
                    n == sent[s][k].text.elems[3].n
                IN  /\ \A i \in 1..Len(es) : IsClick(es[i]) \/ IsSleep(es[i])
                    /\ \A i \in 1..Len(clicks) :
                          /\ clicks[i].str = ResolvedButton(sent[s][k].text)
                          /\ ~clicks[i].ok => i = Len(clicks)
                    /\ ClicksSeparated(es)
                    /\ n[2] > 0 \/ Len(clicks) <= n[1]
                    /\ Returned(s, k) =>
                          IF ResultOf(s, k) = "Ok"
                          THEN /\ <<n[1], n[2]>> = <<Len(clicks), 0>>
                               /\ \A i \in 1..Len(clicks) : clicks[i].ok
                          ELSE /\ ResultOf(s, k) = "Button click failed"
                               /\ Len(clicks) >= 1
                               /\ ~clicks[Len(clicks)].ok

C9_Witness ==
    \E s \in Sessions :
        /\ nread[s] >= 1
        /\ IsText(sent[s][1]) /\ IsClickPayload(sent[s][1].text)
        /\ sent[s][1].text.elems[2] = JStr("r")
        /\ Returned(s, 1)
        /\ ResultOf(s, 1) = "Ok"
        /\ Len(SelectSeq(EventsOf(s, 1), IsClick)) = 3

(***************************************************************************)
(* C10  Once the dispatch of a ButtonClick has returned, every 50 ms sleep *)
(* it made is followed by another click of the same command (count clicks  *)
(* give count - 1 sleeps), and a command with count 1 made none.           *)
(***************************************************************************)
C10_SleepOnlyBetweenClicks ==
    \A s \in Sessions :
        \A k \in 1..nread[s] :
            (IsText(sent[s][k]) /\ IsClickPayload(sent[s][k].text) /\ Returned(s, k)) =>
                LET es == EventsOf(s, k)
                IN  /\ \A i \in 1..Len(es) :
                          IsSleep(es[i]) => (i < Len(es) /\ IsClick(es[i + 1]))
                    /\ sent[s][k].text.elems[3] = JInt(1) =>
                          \A i \in 1..Len(es) : ~IsSleep(es[i])

(***************************************************************************)
(* Pointer moves                                                           *)
(***************************************************************************)
\* the JSON integer e is representable as a 32-bit signed integer
IsI32(e) ==
    \/ e.t = "posint" /\ e.n[3] = 0 /\ e.n[4] = 0 /\ e.n[2] < HalfLimb
    \/ e.t = "negint" /\ e.n[3] = Limb - 1 /\ e.n[4] = Limb - 1 /\ e.n[2] >= HalfLimb

\* the payload is ["m", dx, dy] with dx and dy integers that fit 32 bits
IsMovePayload(p) ==
    /\ p.j = "array"
    /\ Len(p.elems) = 3
    /\ p.elems[1] = JStr("m")
    /\ IsI32(p.elems[2])
    /\ IsI32(p.elems[3])

(***************************************************************************)
(* C11  The dispatch of a well-formed ["m", dx, dy] whose dx and dy fit 32 *)
(* bits issues one relative move_mouse call whose arguments, written back  *)
(* as JSON integers, are the dx and dy of the frame, and nothing else: no  *)
(* other call, no sleep, and exactly one event once it has returned.       *)
(***************************************************************************)
C11_MoveCarriesExactDeltas ==
    \A s \in Sessions :
        \A k \in 1..nread[s] :
            (IsText(sent[s][k]) /\ IsMovePayload(sent[s][k].text)) =>
                LET es == EventsOf(s, k)
                    p == sent[s][k].text
                IN  /\ Len(es) <= 1
                    /\ \A i \in 1..Len(es) :
                          /\ es[i].op = "move_mouse"
                          /\ JInt(es[i].x) = p.elems[2]
                          /\ JInt(es[i].y) = p.elems[3]
                    /\ Returned(s, k) => Len(es) = 1

C11_Witness ==
    \E s \in Sessions :
        /\ nread[s] >= 1
        /\ IsText(sent[s][1]) /\ IsMovePayload(sent[s][1].text)
        /\ sent[s][1].text.elems[2] = JInt(2147483647)
        /\ sent[s][1].text.elems[3] = JNeg(<<0, HalfLimb, Limb - 1, Limb - 1>>)
        /\ Returned(s, 1)
        /\ ResultOf(s, 1) = "Ok"
        /\ Len(EventsOf(s, 1)) = 1

(***************************************************************************)
(* Heartbeat                                                               *)
(***************************************************************************)
IsPingPayload(p) == p.j = "array" /\ p.elems = <<JStr("ping")>>

(***************************************************************************)
(* C12  A ["ping"] frame, wherever it comes in the stream, has returned    *)
(* success by the time the next step is taken and has no event in the      *)
(* trace; right after it the session waits for the next frame with the     *)
(* lock free and the calls issued are those of the frames before it.       *)
(***************************************************************************)
C12_PingIsNoOp ==
    \A s \in Sessions :
        \A k \in 1..nread[s] :
            (IsText(sent[s][k]) /\ IsPingPayload(sent[s][k].text)) =>
                /\ EventsOf(s, k) = << >>
                /\ Returned(s, k)
                /\ ResultOf(s, k) = "Ok"
                /\ k = nread[s] =>
                      /\ pc[s] = "recv"
                      /\ lock[enigo[s]] = 0
                      /\ refs[enigo[s]] = 1
                      /\ Replay(SelectSeq(SubSeq(sent[s], 1, k - 1), Dispatches), Calls(s))

C12_Witness ==
    \E s \in Sessions :
        /\ nread[s] = 2
        /\ IsText(sent[s][2]) /\ IsPingPayload(sent[s][2].text)
        /\ Len(trace[s]) > 0
        /\ ~trace[s][Len(trace[s])].ok
        /\ ResultOf(s, 2) = "Ok"

(***************************************************************************)
(* Unknown names                                                           *)
(***************************************************************************)
\* the payload is ["b", name, n] with name a string other than "l" and "r"
\* and n a count (a non-negative integer)
IsUnknownButtonPayload(p) ==
    /\ p.j = "array"
    /\ Len(p.elems) = 3
    /\ p.elems[1] = JStr("b")
    /\ p.elems[2].t = "str"
    /\ p.elems[2].s \notin {"l", "r"}
    /\ p.elems[3].t = "posint"

(***************************************************************************)
(* C13  A ["b", name, n] frame whose name is a string other than "l" and   *)
(* "r" returns the unknown-button error as soon as it is read and has no   *)
(* event in the trace; the session goes on waiting for the next frame.     *)
(***************************************************************************)
C13_UnknownButtonRejected ==
    \A s \in Sessions :
        \A k \in 1..nread[s] :
            (IsText(sent[s][k]) /\ IsUnknownButtonPayload(sent[s][k].text)) =>
                /\ EventsOf(s, k) = << >>
                /\ Returned(s, k)
                /\ ResultOf(s, k) = "Unknown button type"
                /\ k = nread[s] => pc[s] = "recv" /\ lock[enigo[s]] = 0

C13_Witness ==
    \E s \in Sessions :
        /\ nread[s] = 1
        /\ sent[s][1] = Text(JArray(<<JStr("b"), JStr("x"), JInt(1)>>))
        /\ results[s] = <<"Unknown button type">>
        /\ trace[s] = << >>

\* the payload is ["k", name] with name a string
IsKeyPayload(p) ==
    /\ p.j = "array"
    /\ Len(p.elems) = 2
    /\ p.elems[1] = JStr("k")
    /\ p.elems[2].t = "str"

KeyNames == {"Escape", "PageUp", "PageDown", "Delete", "Return"}

\* the key each name of the protocol stands for
KeyOf(name) == IF name = "Delete" THEN "Backspace" ELSE name

(***************************************************************************)
(* C14  A ["k", name] frame whose name is a string outside Escape, PageUp, *)
(* PageDown, Delete, Return returns the unknown-key error as soon as it is *)
(* read (it is not accepted as a no-op) and has no event in the trace.     *)
(***************************************************************************)
C14_UnknownKeyRejected ==
    \A s \in Sessions :
        \A k \in 1..nread[s] :
            (IsText(sent[s][k]) /\ IsKeyPayload(sent[s][k].text)
                                /\ sent[s][k].text.elems[2].s \notin KeyNames) =>
                /\ EventsOf(s, k) = << >>
                /\ Returned(s, k)
                /\ ResultOf(s, k) = "Unknown key"
                /\ k = nread[s] => pc[s] = "recv" /\ lock[enigo[s]] = 0

C14_Witness ==
    \E s \in Sessions :
        /\ nread[s] = 1
        /\ sent[s][1] = Text(JArray(<<JStr("k"), JStr("Backspace")>>))
        /\ results[s] = <<"Unknown key">>
        /\ trace[s] = << >>

(***************************************************************************)
(* C15  A ["k", name] frame with name one of Escape, PageUp, PageDown,     *)
(* Delete, Return issues one key(.., Click) call and nothing else: on the  *)
(* key of the same name, and on Backspace for Delete; once the dispatch    *)
(* has returned the frame has exactly that one event.                      *)
(***************************************************************************)
C15_KeyActivatesOnce ==
    \A s \in Sessions :
        \A k \in 1..nread[s] :
            (IsText(sent[s][k]) /\ IsKeyPayload(sent[s][k].text)
                                /\ sent[s][k].text.elems[2].s \in KeyNames) =>
                LET es == EventsOf(s, k)
                IN  /\ Len(es) <= 1
                    /\ \A i \in 1..Len(es) :
                          /\ es[i].op = "key"
                          /\ es[i].str = KeyOf(sent[s][k].text.elems[2].s)
                    /\ Returned(s, k) => Len(es) = 1

\* the shapes of the positional arguments of each tag of the protocol
ArgShapes(tag) ==
    CASE tag = "m" -> <<"int", "int">>
      [] tag = "b" -> <<"str", "count">>
      [] tag = "w" -> <<"int">>
      [] tag = "t" -> <<"str">>
      [] tag = "k" -> <<"str">>
      [] tag = "ping" -> << >>

\* a JSON value has the shape: a signed 64-bit integer, a non-negative
\* integer, a string
HasShape(e, shape) ==
    CASE shape = "int" -> e.t = "negint" \/ (e.t = "posint" /\ e.n[4] < HalfLimb)
      [] shape = "count" -> e.t = "posint"
      [] shape = "str" -> e.t = "str"

\* the class of the first failing check of a payload, in the order of the
\* protocol; "none" when all of them pass
Classify(p) ==
    IF p.j = "garbage" THEN "MalformedPayload"
    ELSE IF p.j # "array" THEN "NotAnArray"
    ELSE IF p.elems = << >> THEN "EmptyArray"
    ELSE IF p.elems[1].t # "str" THEN "MissingTag"
    ELSE IF p.elems[1].s \notin {"m", "b", "w", "t", "k", "ping"} THEN "UnknownCommand"
    ELSE LET shapes == ArgShapes(p.elems[1].s)
         IN  IF Len(p.elems) - 1 < Len(shapes) THEN "ArityError"
             ELSE IF \E i \in 1..Len(shapes) : ~HasShape(p.elems[i + 1], shapes[i])
                  THEN "TypeError"
                  ELSE "none"

\* the class a returned error message tells the caller
ErrorClass(msg) ==
    IF msg = "JSON parse error" THEN "MalformedPayload"
    ELSE IF msg = "Message is not an array" THEN "NotAnArray"
    ELSE IF msg = "Empty message array" THEN "EmptyArray"
    ELSE IF msg = "Invalid command type" THEN "MissingTag"
    ELSE IF msg = "Unknown command" THEN "UnknownCommand"
    ELSE IF msg \in {"Invalid mouse move message", "Invalid button click message",
                     "Invalid wheel message", "Invalid text message",
                     "Invalid key press message"} THEN "ArityError"
    ELSE IF msg \in {"Invalid dx", "Invalid dy", "Invalid button type",
                     "Invalid click count", "Invalid text content",
                     "Invalid key name"} THEN "TypeError"
    ELSE "none"

(***************************************************************************)
(* C16  A frame is rejected with the class of its first failing check, in  *)
(* the order not parseable, not an array, empty array, element 0 not a     *)
(* string, unknown tag, missing argument, argument of the wrong shape: the *)
(* returned error tells exactly that class, the frame has no event, and a  *)
(* frame that passes all these checks never returns an error of one of     *)
(* these classes.                                                          *)
(***************************************************************************)
C16_FirstFailingCheckClassifies ==
    \A s \in Sessions :
        \A k \in 1..nread[s] :
            IsText(sent[s][k]) =>
                LET c == Classify(sent[s][k].text)
                IN  /\ c # "none" =>
                          /\ Returned(s, k)
                          /\ ErrorClass(ResultOf(s, k)) = c
                          /\ EventsOf(s, k) = << >>
                    /\ (c = "none" /\ Returned(s, k)) =>
                          ErrorClass(ResultOf(s, k)) = "none"

\* an array that is both too short for "m" and has a dx of the wrong shape
\* was rejected for its length
C16_Witness ==
    \E s \in Sessions :
        /\ nread[s] = 1
        /\ sent[s][1] = Text(JArray(<<JStr("m"), JFloat>>))
        /\ results[s] = <<"Invalid mouse move message">>
        /\ trace[s] = << >>

(***************************************************************************)
(* C17  The session never sends a frame to the client: whatever it has     *)
(* read (valid and invalid frames, frames whose actuator call failed,      *)
(* close frames, transport errors), the number of frames handle_socket has *)
(* written to its connection is zero.                                      *)
(***************************************************************************)
C17_NothingWritten == \A s \in Sessions : written[s] = 0

\* an invalid frame, a frame whose actuator call failed and a close frame
\* have been read, the session has ended, nothing was written
C17_Witness ==
    /\ sent[1] = <<NotAnArrayFrame, MoveFrame, Close>>
    /\ nread[1] = 3
    /\ State(1) = "Closed"
    /\ Len(results[1]) = 2
    /\ results[1][1] = "Message is not an array"
    /\ results[1][2] # "Ok"
    /\ written[1] = 0

\* any step of session s at a socket.recv() that has an item
RecvStep(s) ==
    RecvText(s) \/ RecvClose(s) \/ RecvErr(s) \/ RecvOther(s) \/ RecvNone(s)

\* any step of session s at an actuator call of its command
CallStep(s) ==
    \/ \E ok \in BOOLEAN : Call(s, ok)
    \/ \E ok \in BOOLEAN : Click(s, ok)
    \/ ClickDone(s)

(***************************************************************************)
(* C18  Sessions do not hold each other up and share no state: whatever    *)
(* the other sessions are doing (suspended in the inter-click delay,       *)
(* waiting for a frame), a session with a delivered frame can read it, a   *)
(* session waiting for the lock of its actuator can take it, a session at  *)
(* an actuator call can make it; the only lock a session ever waits for    *)
(* or holds is the one of its own instance, and its call trace is the      *)
(* replay of its own text frames alone.                                    *)
(***************************************************************************)
C18_SessionsIndependent ==
    \A s \in Sessions :
        /\ CanRecv(s) => ENABLED RecvStep(s)
        /\ pc[s] = "lock" => ENABLED Lock(s)
        /\ pc[s] = "call" => ENABLED CallStep(s)
        /\ pc[s] = "sleep" => ENABLED Sleep(s)
        /\ \A t \in Sessions \ {s} :
              /\ enigo[s] # 0 => enigo[t] # enigo[s] /\ lock[enigo[s]] # t
              /\ \A i \in 1..Len(trace[s]) : trace[s][i].inst # enigo[t]
        /\ ~InDispatch(s) => Replay(SelectSeq(ReadItems(s), Dispatches), Calls(s))

\* one session is in its actuator call, holding the lock of its instance,
\* while another is suspended in the inter-click delay, holding its own
C18_Witness ==
    \E s, t \in Sessions :
        /\ s # t
        /\ pc[t] = "sleep" /\ lock[enigo[t]] = t
        /\ pc[s] = "call" /\ lock[enigo[s]] = s
        /\ nread[s] >= 1

\* the items that end the loop of handle_socket
EndsLoop(item) == item.k \in {"Close", "Error", "None"}

\* Nothing is read while a command is in dispatch, and an item that ends the
\* loop is read only when every text frame before it has returned.
ObservedAfterDispatch(s) ==
    /\ InDispatch(s) => nread[s] >= 1 /\ Dispatches(sent[s][nread[s]])
    /\ \A k \in 1..nread[s] :
          EndsLoop(sent[s][k]) =>
              /\ k = nread[s]
              /\ pc[s] = "done"
              /\ Len(results[s]) = Len(SelectSeq(SubSeq(sent[s], 1, k), IsText))

\* the number of actuator calls of command c when none of them fails, as a
\* u32 in two limbs
CallsOf(c) ==
    IF c.tag = "b" THEN c.click_count
    ELSE IF c.tag = "ping" THEN <<0, 0>>
    ELSE <<1, 0>>

(***************************************************************************)
(* C19 as stated: a dispatch that has started performs all the actuator    *)
(* calls of its command, with the delay between consecutive clicks, before *)
(* it ends, and a close frame, a transport error or the end of the stream  *)
(* arriving meanwhile is read only after the dispatch has returned.        *)
(***************************************************************************)
C19_AllCallsPerformed ==
    \A s \in Sessions :
        /\ ObservedAfterDispatch(s)
        /\ \A k \in 1..nread[s] :
              (Dispatches(sent[s][k]) /\ Returned(s, k)) =>
                  LET es == EventsOf(s, k)
                  IN  /\ CallsOf(parse(sent[s][k].text).cmd) = <<Len(SelectSeq(es, IsCall)), 0>>
                      /\ ClicksSeparated(es)

(***************************************************************************)
(* C19 as amended: a dispatch that has started is never cut short by what  *)
(* arrives on the connection: it can always take its next step, nothing is *)
(* read while it runs, it ends only by returning a result, and a close     *)
(* frame, a transport error or the end of the stream is read only after    *)
(* that.  A dispatch that returned success performed all the calls of its  *)
(* command, each with success and with the delay between consecutive       *)
(* clicks; one that returned an error stopped at its first failed call.    *)
(***************************************************************************)
C19_NoMidCommandCancellation ==
    \A s \in Sessions :
        /\ ObservedAfterDispatch(s)
        /\ InDispatch(s) => ENABLED (Lock(s) \/ CallStep(s) \/ Sleep(s))
        /\ \A k \in 1..nread[s] :
              (Dispatches(sent[s][k]) /\ Returned(s, k)) =>
                  LET es == EventsOf(s, k)
                      calls == SelectSeq(es, IsCall)
                  IN  /\ ClicksSeparated(es)
                      /\ IF ResultOf(s, k) = "Ok"
                         THEN /\ CallsOf(parse(sent[s][k].text).cmd) = <<Len(calls), 0>>
                              /\ \A i \in 1..Len(calls) : calls[i].ok
                         ELSE /\ Len(calls) >= 1
                              /\ \A i \in 1..Len(calls) : calls[i].ok <=> i < Len(calls)

\* a close frame that was waiting during a two-click command has been read
\* after both clicks and the return of the dispatch
C19_Witness ==
    /\ sent[1] = <<DoubleClickFrame, Close>>
    /\ nread[1] = 2
    /\ pc[1] = "done"
    /\ results[1] = <<"Ok">>
    /\ Len(SelectSeq(trace[1], IsClick)) = 2

(***************************************************************************)
(* Wheel                                                                   *)
(***************************************************************************)
\* the payload is ["w", dy] with dy an integer the handler accepts
IsWheelPayload(p) ==
    /\ p.j = "array"
    /\ Len(p.elems) = 2
    /\ p.elems[1] = JStr("w")
    /\ HasShape(p.elems[2], "int")

\* the events of the frame at position k are scroll calls, one at most, and
\* exactly one once the dispatch has returned
OneScroll(s, k) ==
    LET es == EventsOf(s, k)
    IN  /\ Len(es) <= 1
        /\ \A i \in 1..Len(es) : es[i].op = "scroll" /\ es[i].x = 0
        /\ Returned(s, k) => Len(es) = 1

(***************************************************************************)
(* C20 as stated: the dispatch of any well-formed ["w", dy] issues one     *)
(* scroll call and nothing else, and the amount of the call, written back  *)
(* as a JSON integer, is the dy of the frame, sign included.               *)
(***************************************************************************)
C20_ScrollCarriesDy ==
    \A s \in Sessions :
        \A k \in 1..nread[s] :
            (IsText(sent[s][k]) /\ IsWheelPayload(sent[s][k].text)) =>
                /\ OneScroll(s, k)
                /\ \A i \in 1..Len(EventsOf(s, k)) :
                      JInt(EventsOf(s, k)[i].y) = sent[s][k].text.elems[2]

(***************************************************************************)
(* C20 as amended: the dispatch of any well-formed ["w", dy] issues one     *)
(* scroll call and nothing else; when dy fits 32 bits the amount of the    *)
(* call is dy itself, positive for positive and negative for negative.     *)
(***************************************************************************)
C20_ScrollCarriesDyIn32Bits ==
    \A s \in Sessions :
        \A k \in 1..nread[s] :
            (IsText(sent[s][k]) /\ IsWheelPayload(sent[s][k].text)) =>
                /\ OneScroll(s, k)
                /\ IsI32(sent[s][k].text.elems[2]) =>
                      \A i \in 1..Len(EventsOf(s, k)) :
                          LET y == EventsOf(s, k)[i].y
                          IN  /\ JInt(y) = sent[s][k].text.elems[2]
                              /\ y < 0 <=> sent[s][k].text.elems[2].t = "negint"

C20_Witness ==
    \E s \in Sessions :
        /\ nread[s] >= 1
        /\ sent[s][1] = Text(JArray(<<JStr("w"), JInt(-65536)>>))
        /\ Returned(s, 1)
        /\ ResultOf(s, 1) = "Ok"
        /\ Len(EventsOf(s, 1)) = 1
        /\ EventsOf(s, 1)[1].y = -65536

(***************************************************************************)
(* More on button clicks                                                   *)
(***************************************************************************)
\* the payload is ["b", "l"|"r", 0]
IsZeroClickPayload(p) ==
    /\ p.j = "array"
    /\ Len(p.elems) = 3
    /\ p.elems[1] = JStr("b")
    /\ p.elems[2] \in {JStr("l"), JStr("r")}
    /\ p.elems[3] = JInt(0)

(***************************************************************************)
(* C21  A ["b", "l"|"r", 0] frame is accepted: it goes through the lock,   *)
(* has no event at all (no click, no sleep) at any time, and its dispatch  *)
(* returns success.                                                        *)
(***************************************************************************)
C21_ZeroClicksAccepted ==
    \A s \in Sessions :
        \A k \in 1..nread[s] :
            (IsText(sent[s][k]) /\ IsZeroClickPayload(sent[s][k].text)) =>
                /\ Dispatches(sent[s][k])
                /\ EventsOf(s, k) = << >>
                /\ Returned(s, k) => ResultOf(s, k) = "Ok"

C21_Witness ==
    \E s \in Sessions :
        /\ nread[s] = 1
        /\ sent[s][1] = Text(JArray(<<JStr("b"), JStr("r"), JInt(0)>>))
        /\ pc[s] = "recv"
        /\ results[s] = <<"Ok">>
        /\ trace[s] = << >>
        /\ lock[enigo[s]] = 0

\* the payload is ["b", "l"|"r", n] with n any non-negative integer
IsAnyClickPayload(p) ==
    /\ p.j = "array"
    /\ Len(p.elems) = 3
    /\ p.elems[1] = JStr("b")
    /\ p.elems[2] \in {JStr("l"), JStr("r")}
    /\ p.elems[3].t = "posint"

(***************************************************************************)
(* C22  When the i-th click call of a click command fails, the dispatch    *)
(* has returned the actuator error by the next state: the failed click is  *)
(* the last event of its frame (no click i+1.., no sleep after it), the    *)
(* i-1 clicks before it succeeded, so exactly i clicks were attempted, and *)
(* the lock is free again.                                                 *)
(***************************************************************************)
C22_FailedClickStopsDispatch ==
    \A s \in Sessions :
        \A k \in 1..nread[s] :
            (IsText(sent[s][k]) /\ IsAnyClickPayload(sent[s][k].text)) =>
                LET es == EventsOf(s, k)
                IN  \A j \in 1..Len(es) :
                        (IsClick(es[j]) /\ ~es[j].ok) =>
                            /\ j = Len(es)
                            /\ \A m \in 1..(j - 1) : es[m].ok
                            /\ Returned(s, k)
                            /\ ResultOf(s, k) = "Button click failed"
                            /\ k = nread[s] => pc[s] = "recv" /\ lock[enigo[s]] = 0

\* the second click of ["b", "l", 3] has failed: two clicks, one sleep
\* between them, the error returned
C22_Witness ==
    \E s \in Sessions :
        /\ nread[s] = 1
        /\ sent[s][1] = Text(JArray(<<JStr("b"), JStr("l"), JInt(3)>>))
        /\ results[s] = <<"Button click failed">>
        /\ Len(trace[s]) = 3
        /\ IsClick(trace[s][1]) /\ trace[s][1].ok
        /\ IsSleep(trace[s][2])
        /\ IsClick(trace[s][3]) /\ ~trace[s][3].ok

(***************************************************************************)
(* Integers beyond 32 bits                                                 *)
(***************************************************************************)
\* the JSON integer e is in the signed 64-bit range but not in the signed
\* 32-bit range
IsWide(e) == HasShape(e, "int") /\ ~IsI32(e)

\* the 32-bit signed integer v is the JSON integer e reduced modulo 2^32:
\* the two low limbs of their two's complement forms are the same
CongruentMod32(v, e) == JInt(v).n[1] = e.n[1] /\ JInt(v).n[2] = e.n[2]

\* the payload is ["m", dx, dy] with one of dx, dy wide at least
IsWideMovePayload(p) ==
    /\ p.j = "array"
    /\ Len(p.elems) = 3
    /\ p.elems[1] = JStr("m")
    /\ HasShape(p.elems[2], "int") /\ HasShape(p.elems[3], "int")
    /\ IsWide(p.elems[2]) \/ IsWide(p.elems[3])

IsWideWheelPayload(p) == IsWheelPayload(p) /\ IsWide(p.elems[2])

\* the payload is ["b", "l"|"r", n] with n of 2^32 at least
IsWideClickPayload(p) ==
    /\ IsAnyClickPayload(p)
    /\ p.elems[3].n[3] > 0 \/ p.elems[3].n[4] > 0

(***************************************************************************)
(* C23  Integers outside the 32-bit range are accepted and truncated.  A   *)
(* ["m", dx, dy] or ["w", dy] with a value in the signed 64-bit range but   *)
(* outside the signed 32-bit range is dispatched and issues one call, whose *)
(* arguments are the values reduced modulo 2^32 into the signed 32-bit      *)
(* range.  A ["b", button, n] with n of 2^32 at least is dispatched with    *)
(* n mod 2^32 as its count: never more clicks than that, exactly that many  *)
(* when it returns success (none for n = 2^32), and a sleep after a click   *)
(* only when n mod 2^32 is above 1.                                         *)
(***************************************************************************)
C23_WideIntegersTruncated ==
    \A s \in Sessions :
        \A k \in 1..nread[s] :
            IsText(sent[s][k]) =>
                LET p == sent[s][k].text
                    es == EventsOf(s, k)
                IN  /\ IsWideMovePayload(p) =>
                          /\ Dispatches(sent[s][k])
                          /\ Len(es) <= 1
                          /\ Returned(s, k) => Len(es) = 1
                          /\ \A i \in 1..Len(es) :
                                /\ es[i].op = "move_mouse"
                                /\ CongruentMod32(es[i].x, p.elems[2])
                                /\ CongruentMod32(es[i].y, p.elems[3])
                    /\ IsWideWheelPayload(p) =>
                          /\ Dispatches(sent[s][k])
                          /\ Len(es) <= 1
                          /\ Returned(s, k) => Len(es) = 1
                          /\ \A i \in 1..Len(es) :
                                /\ es[i].op = "scroll"
                                /\ CongruentMod32(es[i].y, p.elems[2])
                    /\ IsWideClickPayload(p) =>
                          LET n == p.elems[3].n
                              clicks == SelectSeq(es, IsClick)
                          IN  /\ Dispatches(sent[s][k])
                              /\ n[2] = 0 => Len(clicks) <= n[1]
                              /\ (Returned(s, k) /\ ResultOf(s, k) = "Ok") =>
                                    <<n[1], n[2]>> = <<Len(clicks), 0>>
                              /\ (n[2] = 0 /\ n[1] <= 1) => \A i \in 1..Len(es) : ~IsSleep(es[i])

\* ["m", 2^32 + 5, -2^31 - 1] has moved the pointer by (5, 2^31 - 1)
C23_Witness ==
    \E s \in Sessions :
        /\ nread[s] = 1
        /\ sent[s][1] = Text(JArray(<<JStr("m"), JBig(1, 5),
                                JNeg(<<Limb - 1, HalfLimb - 1, Limb - 1, Limb - 1>>)>>))
        /\ results[s] = <<"Ok">>
        /\ Len(trace[s]) = 1
        /\ trace[s][1].x = 5
        /\ trace[s][1].y = 2147483647

(***************************************************************************)
(* Messages that are neither text nor close                                *)
(***************************************************************************)
IsOther(item) == item \in OtherItems

\* the step reads a binary, ping or pong message on session s
ReadsOther(s) ==
    /\ nread[s] < Len(sent[s])
    /\ nread'[s] = nread[s] + 1
    /\ IsOther(sent[s][nread[s] + 1])

(***************************************************************************)
(* C24  A binary, ping or pong message is skipped.  The step that reads it *)
(* changes nothing but the read position: no call, no result, no lock, the *)
(* session as it was.  Once read, the message has no event, the session is *)
(* Open and waits for the next item, the results are those of the text     *)
(* frames alone, and the calls issued are those of the text frames read,   *)
(* before and after it, as if the message had not been sent.               *)
(***************************************************************************)
C24_OtherMessagesSkipped ==
    /\ [][\A s \in Sessions :
             ReadsOther(s) =>
                 /\ pc[s] = "recv" /\ pc'[s] = "recv"
                 /\ UNCHANGED <<pc, enigo, refs, lock, cur, trace, results, written>>]_vars
    /\ [](\A s \in Sessions :
             /\ \A k \in 1..nread[s] : IsOther(sent[s][k]) => EventsOf(s, k) = << >>
             /\ (nread[s] > 0 /\ IsOther(sent[s][nread[s]])) =>
                   pc[s] = "recv" /\ State(s) = "Open" /\ lock[enigo[s]] = 0
             /\ ~InDispatch(s) =>
                   /\ Len(results[s]) = Len(TextRead(s))
                   /\ Replay(SelectSeq(ReadItems(s), Dispatches), Calls(s)))

\* a move, a pong and a double click were read: three calls, two results
C24_Witness ==
    /\ sent[1] = <<MoveFrame, Pong, DoubleClickFrame>>
    /\ nread[1] = 3
    /\ pc[1] = "recv"
    /\ results[1] = <<"Ok", "Ok">>
    /\ Len(Calls(1)) = 3

(***************************************************************************)
(* Contention on the actuator lock                                         *)
(***************************************************************************)
\* the sessions whose handle_socket owns instance a
Owners(a) == {s \in Sessions : enigo[s] = a /\ State(s) = "Open"}

(***************************************************************************)
(* C25  The lock of an actuator is never contended.  The handles to an     *)
(* instance are those of one session: the Arc of its loop and, during a    *)
(* dispatch, the clone given to handle_message.  So whenever a dispatch is *)
(* about to acquire the lock the lock is free and the acquisition can      *)
(* proceed at once, at most one dispatch per instance exists at any time,  *)
(* and a held lock is held by the dispatch of the owner, which can always  *)
(* take its next step.                                                     *)
(***************************************************************************)
C25_LockNeverContended ==
    /\ \A a \in Instances :
          /\ Cardinality(Owners(a)) <= 1
          /\ Cardinality({s \in Sessions : enigo[s] = a /\ InDispatch(s)}) <= 1
          /\ refs[a] = Cardinality(Owners(a))
                       + Cardinality({s \in Sessions : enigo[s] = a /\ InDispatch(s)})
          /\ lock[a] # 0 => enigo[lock[a]] = a /\ pc[lock[a]] \in {"call", "sleep"}
    /\ \A s \in Sessions :
          /\ pc[s] = "lock" => lock[enigo[s]] = 0 /\ ENABLED Lock(s)
          /\ pc[s] \in {"call", "sleep"} => ENABLED (CallStep(s) \/ Sleep(s))

\* a second dispatch of a session is about to take the lock its first
\* dispatch held and released, while another session is open
C25_Witness ==
    \E s, t \in Sessions :
        /\ s # t
        /\ State(t) = "Open"
        /\ pc[s] = "lock"
        /\ nread[s] = 2
        /\ Len(trace[s]) > 0
        /\ lock[enigo[s]] = 0

(***************************************************************************)
(* The two copies of handle_message                                        *)
(***************************************************************************)
\* what the copy of handler.rs makes of the text frame at position k agrees
\* with what the session has done with it: the same success or error, and
\* once returned the same calls
AsHandlerCopy(s, k) ==
    LET r == parse(sent[s][k].text)
        calls == SelectSeq(EventsOf(s, k), IsCall)
    IN  /\ r.err # "" => EventsOf(s, k) = << >> /\ Returned(s, k)
        /\ Returned(s, k) =>
              IF r.err # ""
              THEN /\ ResultOf(s, k) = r.err
                   /\ ErrorClass(ResultOf(s, k)) = ErrorClass(r.err)
              ELSE /\ ErrorClass(ResultOf(s, k)) = "none"
                   /\ Take(r.cmd, calls) = Len(calls)

(***************************************************************************)
(* C26  The copy of handle_message in main.rs and the one in handler.rs    *)
(* are equivalent: the two make the same of every text frame (the same     *)
(* error, or the same command), and a session running the copy of main.rs  *)
(* returns for every text frame what the copy of handler.rs returns, with  *)
(* the same actuator calls.                                                *)
(***************************************************************************)
C26_CopiesEquivalent ==
    \A s \in Sessions :
        \A k \in 1..nread[s] :
            IsText(sent[s][k]) =>
                /\ parse_main(sent[s][k].text) = parse(sent[s][k].text)
                /\ AsHandlerCopy(s, k)

====
